---- MODULE Spec2Model ----
(***************************************************************************)
(* Model of the wgpu/winit clear-colour demo (src/src/lib.rs).             *)
(*                                                                         *)
(* One action per winit callback: Resumed (App::resumed) and one action    *)
(* per WindowEvent kind (App::window_event).  Every action is the whole    *)
(* handler: State::input, the window_id test, the match on the event and,  *)
(* for RedrawRequested, State::update and State::render.                   *)
(*                                                                         *)
(* Numbers.  Time is counted in ticks, TicksPerSec ticks to the second.    *)
(* Blue is counted in units of 1/(2*TicksPerSec), so that the code's       *)
(* delta = delta_time * 0.5 is exactly one unit per tick and 1.0 is One    *)
(* units.  Red and green are the quotients position/size, kept as reduced  *)
(* fractions <<n, d>>; a division by 0.0 gives <<1, 0>> (inf) or <<0, 0>>  *)
(* (NaN) as f64 division does.  Rounding of f64 is not modelled.           *)
(*                                                                         *)
(* Structured values are tuples read through named accessors, not records: *)
(* TLC sorts the fields of a record in place, which is not safe when       *)
(* several workers evaluate the same record constructor.                   *)
(*                                                                         *)
(* frame_count and fps_timer (lib.rs 269-275) only feed a log line and are *)
(* read by nothing else; they are left out.                                *)
(*                                                                         *)
(* ev, calls, cleared and advanced record what the last callback was and   *)
(* did (advanced: whether cycle_blue has run on this State); the program   *)
(* does not read them.                                                     *)
(***************************************************************************)
EXTENDS Integers, Sequences, FiniteSets, TLC

\* largest window width drawn, in pixels
MaxWidth == 2
\* longest time, in ticks, between two update ticks
MaxElapsed == 2
\* resolution of the clock: a tick is half a second, a blue unit is 0.25
TicksPerSec == 2

One == 2 * TicksPerSec

VARIABLES status, size, config, mouse_down, elapsed,
          color, blue_direction, redraw_pending, ev, calls,
          cleared, advanced

vars == <<status, size, config, mouse_down, elapsed,
          color, blue_direction, redraw_pending, ev, calls,
          cleared, advanced>>

----------------------------------------------------------------------------
(* Values *)

Widths == 0..MaxWidth
Heights == {0, 1}
\* window.inner_size() of a window that has just been created
InitialSizes == (Widths \ {0}) \X (Heights \ {0})
\* cursor positions, in pixels
Coords == {0, 1}
Keys == {"Escape", "KeyQ", "KeyA"}
Buttons == {"Left", "Right"}
SurfaceErrors == {"Lost", "OutOfMemory", "Outdated", "Timeout"}
AcquireResults == {"Ok"} \cup SurfaceErrors

(* An event is <<kind, own, ...>>: own tells whether window_id is the id   *)
(* of the application's window; the rest depends on the kind.              *)
Kind(e) == e[1]
Own(e) == e[2]
\* KeyboardInput: physical_key, state, is_synthetic
Key(e) == e[3]
KeyPressed(e) == e[4]
Synthetic(e) == e[5]
\* Resized: physical_size
NewWidth(e) == e[3]
NewHeight(e) == e[4]
\* CursorMoved: position
PosX(e) == e[3]
PosY(e) == e[4]
\* MouseInput: button, state
Button(e) == e[3]
ButtonPressed(e) == e[4]
\* RedrawRequested: what get_current_texture returns during this redraw
Acquire(e) == e[3]

(* wgpu::Color is <<r, g, b, a>>. *)
Red(c) == c[1]
Green(c) == c[2]
Blue(c) == c[3]
Alpha(c) == c[4]

RECURSIVE GCD(_, _)
GCD(m, n) == IF n = 0 THEN m ELSE GCD(n, m % n)

\* position as f64 / size as f64
Div(n, d) ==
    IF d = 0 THEN (IF n = 0 THEN <<0, 0>> ELSE <<1, 0>>)
    ELSE LET k == GCD(n, d) IN <<n \div k, d \div k>>

\* wgpu::Color::default(): all four channels 0.0
DefaultColor == <<(<<0, 1>>), (<<0, 1>>), 0, 0>>

\* #[derive(Default)] on ColorInfo: bool::default() is false
DefaultBlueDirection == FALSE

\* value of cleared when the last handler submitted no clear pass
NoClear == <<>>

----------------------------------------------------------------------------
(* State::cycle_blue.  delta is in blue units (= elapsed ticks).  The      *)
(* result is <<blue, blue_direction>>.                                     *)

\* Variant that clamps blue into [0, 1] after the step.
CycleBlueClamped(b, dir, delta) ==
    LET raw == IF dir THEN b + delta ELSE b - delta
        nb == IF raw > One THEN One ELSE IF raw < 0 THEN 0 ELSE raw
        nd == IF raw >= One THEN FALSE
              ELSE IF raw <= 0 THEN TRUE
              ELSE dir
    IN <<nb, nd>>

\* Variant that picks the direction from blue as it was before the step.
CycleBlueFlipFirst(b, dir, delta) ==
    LET nb == IF dir THEN b + delta ELSE b - delta
        nd == IF b >= One THEN FALSE
              ELSE IF b <= 0 THEN TRUE
              ELSE dir
    IN <<nb, nd>>

CycleBlue(b, dir, delta) ==
    LET nb == IF dir THEN b + delta ELSE b - delta
        nd == IF nb >= One THEN FALSE
              ELSE IF nb <= 0 THEN TRUE
              ELSE dir
    IN <<nb, nd>>

(* State::input.  at is self.micros.elapsed(), the time since the last    *)
(* update tick.  The result is <<color, blue_direction, mouse_down,        *)
(* cycled, ret>>: cycled tells whether cycle_blue was called, ret is the   *)
(* returned bool.                                                          *)
InColor(i) == i[1]
InBlueDirection(i) == i[2]
InMouseDown(i) == i[3]
InCycled(i) == i[4]
InRet(i) == i[5]

\* Variant that normalizes red by the height instead of the width.
InputCursorMovedByHeight(event) ==
    <<(<<Div(PosX(event), size[2]), Div(PosY(event), size[2]),
         Blue(color), 1>>),
      blue_direction, mouse_down, FALSE, TRUE>>

InputCursorMoved(event) ==
    <<(<<Div(PosX(event), size[1]), Div(PosY(event), size[2]),
         Blue(color), 1>>),
      blue_direction, mouse_down, FALSE, TRUE>>

\* Variant that decides on the flag as it was before the event set it.
InputTailOldFlag(md, at) ==
    IF mouse_down
    THEN LET cb == CycleBlue(Blue(color), blue_direction, at)
         IN <<(<<Red(color), Green(color), cb[1], Alpha(color)>>),
              cb[2], md, TRUE, TRUE>>
    ELSE <<color, blue_direction, md, FALSE, FALSE>>

InputTail(md, at) ==
    IF md
    THEN LET cb == CycleBlue(Blue(color), blue_direction, at)
         IN <<(<<Red(color), Green(color), cb[1], Alpha(color)>>),
              cb[2], md, TRUE, TRUE>>
    ELSE <<color, blue_direction, md, FALSE, FALSE>>

Input(event, at) ==
    IF Kind(event) = "CursorMoved" THEN InputCursorMoved(event)
    ELSE IF Kind(event) = "MouseInput" /\ Button(event) = "Left"
         THEN InputTail(ButtonPressed(event), at)
    ELSE InputTail(mouse_down, at)

(* State::resize.  The result is <<size, config, calls>>.  The surface     *)
(* itself is not a variable: it is configured only by a "configure" call,  *)
(* always with the config stored at the call.                              *)

\* Variant whose guard is || instead of &&.
ResizeEitherNonzero(new_size) ==
    IF new_size[1] > 0 \/ new_size[2] > 0
    THEN <<new_size, new_size, (<<"configure">>)>>
    ELSE <<size, config, (<<>>)>>

\* Variant that copies the size into the config before storing the new one.
ResizeConfigLags(new_size) ==
    IF new_size[1] > 0 /\ new_size[2] > 0
    THEN <<new_size, size, (<<"configure">>)>>
    ELSE <<size, config, (<<>>)>>

\* Variant that stores the size but leaves the config as it was.
ResizeSizeOnly(new_size) ==
    IF new_size[1] > 0 /\ new_size[2] > 0
    THEN <<new_size, config, (<<"configure">>)>>
    ELSE <<size, config, (<<>>)>>

Resize(new_size) ==
    IF new_size[1] > 0 /\ new_size[2] > 0
    THEN <<new_size, new_size, (<<"configure">>)>>
    ELSE <<size, config, (<<>>)>>

(* State::render.  acquire is what Surface::get_current_texture returns;   *)
(* the unwrap() on it panics on every Err, so render only ever returns Ok. *)
(* The result is <<panicked, result, calls>>.                              *)
Panicked(r) == r[1]
Returned(r) == r[2]
RenderCalls(r) == r[3]

\* Variant that propagates the error (?) instead of unwrapping it.
RenderPropagating(acquire) ==
    IF acquire = "Ok"
    THEN <<FALSE, "Ok", (<<"get_current_texture", "submit", "present">>)>>
    ELSE <<FALSE, acquire, (<<"get_current_texture">>)>>

Render(acquire) ==
    IF acquire = "Ok"
    THEN <<FALSE, "Ok", (<<"get_current_texture", "submit", "present">>)>>
    ELSE <<TRUE, acquire, (<<"get_current_texture">>)>>

(* The match on render's result in the RedrawRequested arm: the calls it   *)
(* makes.  configure is always passed the stored config (&state.config).   *)

RenderResult(result) ==
    IF result = "Lost" THEN <<"configure">> ELSE <<>>

(* The pattern of the first match arm of App::window_event. *)

\* Variant that does not look at the key's ElementState.
IsQuitAnyState(event) ==
    \/ Kind(event) = "CloseRequested"
    \/ /\ Kind(event) = "KeyboardInput"
       /\ Key(event) \in {"Escape", "KeyQ"}
       /\ ~Synthetic(event)

IsQuit(event) ==
    \/ Kind(event) = "CloseRequested"
    \/ /\ Kind(event) = "KeyboardInput"
       /\ Key(event) \in {"Escape", "KeyQ"}
       /\ KeyPressed(event)
       /\ ~Synthetic(event)

(* Order of the calls of one window_event: input first, then the match. *)

\* Variant that runs the match before input.
HandlerCallsMatchFirst(inputCalls, matchCalls) == matchCalls \o inputCalls

HandlerCalls(inputCalls, matchCalls) == inputCalls \o matchCalls

----------------------------------------------------------------------------
(* The match of App::window_event, taken only when window_id ==            *)
(* window.id().  The result is <<status, size, config, elapsed,            *)
(* requested, calls>>: requested tells whether request_redraw was called.  *)
DStatus(d) == d[1]
DSize(d) == d[2]
DConfig(d) == d[3]
DElapsed(d) == d[4]
DRequested(d) == d[5]
DCalls(d) == d[6]

\* Variant whose RedrawRequested arm does not request the next redraw.
DispatchNoRequest(event) ==
    LET keep == <<"Ready", size, config, elapsed, FALSE, (<<>>)>>
    IN IF ~Own(event) THEN keep
       ELSE IF IsQuit(event)
            THEN <<"Terminated", size, config, elapsed, FALSE,
                   (<<"exit">>)>>
       ELSE IF Kind(event) = "Resized"
            THEN LET rs == Resize(<<NewWidth(event), NewHeight(event)>>)
                 IN <<"Ready", rs[1], rs[2], elapsed, FALSE, rs[3]>>
       ELSE IF Kind(event) = "RedrawRequested"
            THEN LET rd == Render(Acquire(event))
                     pre == <<"update">>
                 IN IF Panicked(rd)
                    THEN <<"Panicked", size, config, 0, FALSE,
                           pre \o RenderCalls(rd)>>
                    ELSE <<"Ready", size, config, 0, FALSE,
                           pre \o RenderCalls(rd)
                               \o RenderResult(Returned(rd))>>
       ELSE keep

Dispatch(event) ==
    LET keep == <<"Ready", size, config, elapsed, FALSE, (<<>>)>>
    IN IF ~Own(event) THEN keep
       ELSE IF IsQuit(event)
            THEN <<"Terminated", size, config, elapsed, FALSE,
                   (<<"exit">>)>>
       ELSE IF Kind(event) = "Resized"
            THEN LET rs == Resize(<<NewWidth(event), NewHeight(event)>>)
                 IN <<"Ready", rs[1], rs[2], elapsed, FALSE, rs[3]>>
       ELSE IF Kind(event) = "RedrawRequested"
            THEN LET rd == Render(Acquire(event))
                     pre == <<"request_redraw", "update">>
                 IN IF Panicked(rd)
                    THEN <<"Panicked", size, config, 0, TRUE,
                           pre \o RenderCalls(rd)>>
                    ELSE <<"Ready", size, config, 0, TRUE,
                           pre \o RenderCalls(rd)
                               \o RenderResult(Returned(rd))>>
       ELSE keep

(* The colour of the clear pass that the handler submits: render reads    *)
(* self.color_info.color after input has run (LoadOp::Clear).              *)

\* Variant that clears with the colour from before input ran.
ClearColorBeforeInput(event, in) ==
    IF Kind(event) = "RedrawRequested" /\ Own(event)
       /\ ~Panicked(Render(Acquire(event)))
    THEN color
    ELSE NoClear

ClearColor(event, in) ==
    IF Kind(event) = "RedrawRequested" /\ Own(event)
       /\ ~Panicked(Render(Acquire(event)))
    THEN InColor(in)
    ELSE NoClear

WindowEvent(event) ==
    /\ status = "Ready"
    /\ LET in == Input(event, elapsed)
           inCalls == (IF InCycled(in) THEN <<"cycle_blue">> ELSE <<>>)
                      \o (IF InRet(in) THEN <<"request_redraw">> ELSE <<>>)
           d == Dispatch(event)
       IN /\ color' = InColor(in)
          /\ blue_direction' = InBlueDirection(in)
          /\ mouse_down' = InMouseDown(in)
          /\ status' = DStatus(d)
          /\ size' = DSize(d)
          /\ config' = DConfig(d)
          /\ elapsed' = DElapsed(d)
          /\ redraw_pending' =
                IF Kind(event) = "RedrawRequested" /\ Own(event)
                THEN (InRet(in) \/ DRequested(d))
                ELSE (redraw_pending \/ InRet(in) \/ DRequested(d))
          /\ calls' = HandlerCalls(inCalls, DCalls(d))
          /\ cleared' = ClearColor(event, in)
          /\ advanced' = (advanced \/ InCycled(in))
    /\ ev' = event

----------------------------------------------------------------------------
(* Events.  Every event is drawn for the application's window.  For       *)
(* another window (own = FALSE) only the events the match would act on are *)
(* drawn: State::input does not look at the window id, so the others add   *)
(* nothing that the application's own events do not show.                  *)

CloseRequested ==
    \E own \in BOOLEAN :
        WindowEvent(<<"CloseRequested", own>>)

KeyboardInput ==
    \/ \E key \in Keys, pressed \in BOOLEAN, synthetic \in BOOLEAN :
            WindowEvent(<<"KeyboardInput", TRUE, key, pressed, synthetic>>)
    \/ \E key \in {"Escape", "KeyQ"} :
            WindowEvent(<<"KeyboardInput", FALSE, key, TRUE, FALSE>>)

Resized ==
    \/ \E w \in Widths, h \in Heights :
            WindowEvent(<<"Resized", TRUE, w, h>>)
    \/ \E s \in InitialSizes :
            WindowEvent(<<"Resized", FALSE, s[1], s[2]>>)

CursorMoved ==
    \E x \in Coords, y \in Coords :
        WindowEvent(<<"CursorMoved", TRUE, x, y>>)

MouseInput ==
    \E button \in Buttons, pressed \in BOOLEAN :
        WindowEvent(<<"MouseInput", TRUE, button, pressed>>)

\* render, and with it get_current_texture, is called only for the
\* application's window
RedrawRequested ==
    \/ \E acquire \in AcquireResults :
            WindowEvent(<<"RedrawRequested", TRUE, acquire>>)
    \/ WindowEvent(<<"RedrawRequested", FALSE, "NotCalled">>)

Focused ==
    WindowEvent(<<"Focused", TRUE>>)

(* Time passing between two callbacks: Instant::elapsed() of micros grows. *)

Tick ==
    /\ status = "Ready"
    /\ elapsed < MaxElapsed
    /\ elapsed' = elapsed + 1
    /\ ev' = <<"Tick", FALSE>>
    /\ calls' = <<>>
    /\ cleared' = NoClear
    /\ UNCHANGED <<status, size, config, mouse_down, color,
                   blue_direction, redraw_pending, advanced>>

(* App::resumed: creates a window and a State for it (State::new). *)

Resumed ==
    /\ status \in {"Uninitialized", "Ready"}
    /\ \E s \in InitialSizes : size' = s /\ config' = s
    /\ mouse_down' = FALSE
    /\ elapsed' = 0
    /\ color' = DefaultColor
    /\ blue_direction' = DefaultBlueDirection
    /\ status' = "Ready"
    /\ redraw_pending' = TRUE
    /\ ev' = <<"Resumed", TRUE>>
    /\ calls' = <<"request_redraw">>
    /\ cleared' = NoClear
    /\ advanced' = FALSE

----------------------------------------------------------------------------

Init ==
    /\ status = "Uninitialized"
    /\ size = <<0, 0>>
    /\ config = <<0, 0>>
    /\ mouse_down = FALSE
    /\ elapsed = 0
    /\ color = DefaultColor
    /\ blue_direction = DefaultBlueDirection
    /\ redraw_pending = FALSE
    /\ ev = <<"None", FALSE>>
    /\ calls = <<>>
    /\ cleared = NoClear
    /\ advanced = FALSE

Next ==
    \/ Resumed
    \/ CloseRequested
    \/ KeyboardInput
    \/ Resized
    \/ CursorMoved
    \/ MouseInput
    \/ RedrawRequested
    \/ Focused
    \/ Tick

Spec == Init /\ [][Next]_vars

----------------------------------------------------------------------------
(* Helpers for the properties *)

CalledIn(cs, c) == \E i \in 1..Len(cs) : cs[i] = c
Called(c) == CalledIn(calls, c)
TimesCalled(c) == Cardinality({i \in 1..Len(calls) : calls[i] = c})

WindowEventKinds == {"CloseRequested", "KeyboardInput", "Resized",
                     "CursorMoved", "MouseInput", "RedrawRequested",
                     "Focused"}

RenderFailedWith(errs) ==
    Kind(ev) = "RedrawRequested" /\ Own(ev) /\ Acquire(ev) \in errs

----------------------------------------------------------------------------
(* C1: when the render attempt of a redraw fails with SurfaceLost, the     *)
(* surface is reconfigured (with the stored config) and the loop goes on:  *)
(* the application stays Ready.                                            *)
C1_SurfaceLostReconfigures ==
    RenderFailedWith({"Lost"}) => status = "Ready" /\ Called("configure")

(* C2: an Outdated or Timeout acquisition failure skips the frame and      *)
(* never crashes: nothing is submitted or presented and the application    *)
(* stays Ready.                                                            *)
C2_TransientSkipsFrame ==
    RenderFailedWith({"Outdated", "Timeout"}) =>
        status = "Ready" /\ ~Called("submit") /\ ~Called("present")

(* C3: OutOfMemory from a render attempt is fatal: the loop is over (the   *)
(* process has panicked), that frame was neither submitted nor presented,  *)
(* and no step follows, so no later frame is rendered.                     *)
C3_OutOfMemoryFatal ==
    /\ [](RenderFailedWith({"OutOfMemory"}) =>
            status = "Panicked" /\ ~Called("submit") /\ ~Called("present"))
    /\ [][~RenderFailedWith({"OutOfMemory"})]_vars

C3_Witness ==
    RenderFailedWith({"OutOfMemory"}) /\ status = "Panicked"
        /\ Called("get_current_texture")

(* C4: a step takes Ready to Terminated exactly when it handles, for the   *)
(* application's own window, a close request or a non-synthetic press of   *)
(* Escape or Q.                                                            *)
C4_QuitEvent(e) ==
    /\ Own(e)
    /\ \/ Kind(e) = "CloseRequested"
       \/ /\ Kind(e) = "KeyboardInput"
          /\ (Key(e) = "Escape" \/ Key(e) = "KeyQ")
          /\ KeyPressed(e)
          /\ ~Synthetic(e)

C4_QuitExactly ==
    [][status = "Ready" =>
          ((status' = "Terminated") <=> C4_QuitEvent(ev'))]_vars

C4_Witness ==
    /\ status = "Terminated"
    /\ Kind(ev) = "KeyboardInput" /\ Key(ev) = "KeyQ"

C6_EveryEventAdvancesBlue ==
    (Kind(ev) \in WindowEventKinds /\ mouse_down) =>
        TimesCalled("cycle_blue") = 1 /\ Called("request_redraw")

(* C7: at context initialization the colour is black and the blue          *)
(* direction is increasing.                                                *)
C7_DefaultIncreasing ==
    Kind(ev) = "Resumed" =>
        /\ Red(color) = <<0, 1>> /\ Green(color) = <<0, 1>>
        /\ Blue(color) = 0
        /\ blue_direction = TRUE

(* C8: a cursor-move at (x, y) within the window sets red = x/width and    *)
(* green = y/height of the stored size, alpha = 1, and keeps blue and its  *)
(* direction; the stored size is the initial one or that of the latest     *)
(* resize of the window with both dimensions nonzero.                      *)
C8_IsQuotient(q, n, d) == q[2] > 0 /\ q[1] * d = n * q[2]

C8_ValidResize(e) == Own(e) /\ NewWidth(e) > 0 /\ NewHeight(e) > 0

C8_CursorNormalized ==
    [][/\ (status = "Ready" /\ Kind(ev') = "CursorMoved"
              /\ PosX(ev') <= size[1] /\ PosY(ev') <= size[2]) =>
            /\ C8_IsQuotient(Red(color'), PosX(ev'), size[1])
            /\ C8_IsQuotient(Green(color'), PosY(ev'), size[2])
            /\ Alpha(color') = 1
            /\ Blue(color') = Blue(color)
            /\ blue_direction' = blue_direction
            /\ size' = size
       /\ (Kind(ev') = "Resized" /\ C8_ValidResize(ev')) =>
            size' = <<NewWidth(ev'), NewHeight(ev')>>
       /\ (status = "Ready" /\ size' # size) =>
            \/ Kind(ev') = "Resumed"
            \/ Kind(ev') = "Resized" /\ C8_ValidResize(ev')
      ]_vars

C8_Witness ==
    /\ Kind(ev) = "CursorMoved" /\ PosX(ev) = 1 /\ PosY(ev) = 1
    /\ size = <<2, 1>>
    /\ Red(color) = <<1, 2>> /\ Green(color) = <<1, 1>>
    /\ Alpha(color) = 1
    /\ mouse_down /\ Blue(color) > 0

(* C9: advance_blue adds the delta (elapsed * 0.5) to blue when the        *)
(* direction is increasing and subtracts it otherwise; the direction then  *)
(* becomes decreasing if blue >= 1, else increasing if blue <= 0, else is  *)
(* unchanged; blue itself is never clamped.                                *)
C9_AdvanceBlue ==
    [][CalledIn(calls', "cycle_blue") =>
        /\ (blue_direction => Blue(color') = Blue(color) + elapsed)
        /\ (~blue_direction => Blue(color') = Blue(color) - elapsed)
        /\ (Blue(color') >= One => blue_direction' = FALSE)
        /\ (Blue(color') < One /\ Blue(color') <= 0 =>
                blue_direction' = TRUE)
        /\ (Blue(color') < One /\ Blue(color') > 0 =>
                blue_direction' = blue_direction)
      ]_vars

C9_Witness ==
    /\ Called("cycle_blue")
    /\ Blue(color) = One + 1
    /\ blue_direction = FALSE

(* C10: a resize with a zero width or height is a no-op: stored size and   *)
(* SurfaceConfig are untouched and the surface is not reconfigured.        *)
C10_ZeroResizeNoOp ==
    [][(status = "Ready" /\ Kind(ev') = "Resized"
            /\ (NewWidth(ev') = 0 \/ NewHeight(ev') = 0)) =>
        /\ size' = size
        /\ config' = config
        /\ ~CalledIn(calls', "configure")
      ]_vars

C10_Witness ==
    /\ Kind(ev) = "Resized" /\ Own(ev)
    /\ NewWidth(ev) > 0 /\ NewHeight(ev) = 0
    /\ status = "Ready"
    /\ size[2] > 0 /\ config = size

C12_ContinuousRedraw ==
    /\ (Kind(ev) = "Resumed" => Called("request_redraw"))
    /\ (Kind(ev) = "RedrawRequested" /\ Own(ev) =>
            Called("request_redraw") /\ redraw_pending)
    /\ (status = "Ready" => redraw_pending)

C12_Witness ==
    /\ status = "Ready"
    /\ Kind(ev) = "RedrawRequested" /\ Own(ev) /\ Acquire(ev) = "Ok"
    /\ ~mouse_down /\ ~Called("cycle_blue")
    /\ Called("present")
    /\ redraw_pending

(* C14: once a cursor move has produced the colour (x/width, y/height,     *)
(* b_prev, 1.0), the redraw-requested event that follows and acquires its  *)
(* frame submits a clear pass with exactly that red, green and alpha; its  *)
(* blue is b_prev when the mouse button is not held, and b_prev advanced   *)
(* by the redraw event's own cycle_blue step when it is held.              *)
C14_ClearsStoredColor ==
    [][(/\ status = "Ready" /\ Alpha(color) = 1
        /\ Kind(ev') = "RedrawRequested" /\ Own(ev')
        /\ Acquire(ev') = "Ok") =>
        /\ CalledIn(calls', "submit")
        /\ cleared' # NoClear
        /\ Red(cleared') = Red(color)
        /\ Green(cleared') = Green(color)
        /\ Alpha(cleared') = 1
        /\ (~mouse_down => Blue(cleared') = Blue(color))
        /\ (mouse_down /\ blue_direction =>
                Blue(cleared') = Blue(color) + elapsed)
        /\ (mouse_down /\ ~blue_direction =>
                Blue(cleared') = Blue(color) - elapsed)
      ]_vars

C14_Witness ==
    /\ Kind(ev) = "RedrawRequested" /\ Own(ev) /\ Acquire(ev) = "Ok"
    /\ mouse_down /\ Called("cycle_blue") /\ Called("submit")
    /\ cleared # NoClear
    /\ cleared = color
    /\ Red(cleared) = <<1, 2>> /\ Alpha(cleared) = 1
    /\ Blue(cleared) = 1

(* C14 as first stated: the clear pass has that exact colour, blue         *)
(* included, also while the mouse button is held.                          *)
C14_ClearsExactCursorColor ==
    [][(/\ status = "Ready" /\ Alpha(color) = 1
        /\ Kind(ev') = "RedrawRequested" /\ Own(ev')
        /\ Acquire(ev') = "Ok") =>
        /\ CalledIn(calls', "submit")
        /\ cleared' = color
      ]_vars

(* C15: the blue animation is frame independent: while the button is held  *)
(* and the direction does not flip, blue changes by 0.5 x the wall-clock   *)
(* time that passed, however many events are delivered.  So when a handler *)
(* has advanced blue and the next event arrives with no time in between,   *)
(* that event's advance leaves blue where it is.                           *)
C15_FrameIndependent ==
    [][(/\ status = "Ready" /\ mouse_down /\ Called("cycle_blue")
        /\ Kind(ev') \in WindowEventKinds
        /\ CalledIn(calls', "cycle_blue")
        /\ blue_direction' = blue_direction) =>
        Blue(color') = Blue(color)
      ]_vars

(* C16: the window's State is constructed once: an activation delivered    *)
(* while the application is Ready builds nothing anew and leaves the       *)
(* colour, the blue direction and mouse_down as they are.                  *)
C16_ConstructedOnce ==
    [][(status = "Ready" /\ Kind(ev') = "Resumed") =>
        /\ color' = color
        /\ blue_direction' = blue_direction
        /\ mouse_down' = mouse_down
      ]_vars

(* C17: on a State, mouse_down is true exactly when the most recent        *)
(* left-button mouse event was a press: it is false at construction, a     *)
(* left-button event sets it to whether the button was pressed, and no     *)
(* other event (another button included) changes it.  An event after whose *)
(* specific handling mouse_down is false, a left-button release included,  *)
(* leaves blue and the blue direction unchanged.                           *)
C17_MouseDownTracksLeftButton ==
    /\ [](Kind(ev) \in {"None", "Resumed"} => ~mouse_down)
    /\ [][(status = "Ready" /\ Kind(ev') \in WindowEventKinds) =>
            /\ (Kind(ev') = "MouseInput" /\ Button(ev') = "Left" =>
                    mouse_down' = ButtonPressed(ev'))
            /\ (~(Kind(ev') = "MouseInput" /\ Button(ev') = "Left") =>
                    mouse_down' = mouse_down)
            /\ (~mouse_down' =>
                    /\ Blue(color') = Blue(color)
                    /\ blue_direction' = blue_direction
                    /\ ~CalledIn(calls', "cycle_blue"))
         ]_vars

C17_Witness ==
    /\ Kind(ev) = "MouseInput" /\ Button(ev) = "Left"
    /\ ~ButtonPressed(ev)
    /\ ~mouse_down
    /\ advanced /\ ~Called("cycle_blue")
    /\ elapsed > 0
    /\ Blue(color) > 0

(* C18: whenever a State exists its stored size equals the SurfaceConfig   *)
(* width and height, and with a nonzero initial window size both stored    *)
(* dimensions stay nonzero through any resizes, so the quotients of the    *)
(* cursor normalization always have a nonzero divisor.                     *)
C18_SizeMatchesConfig ==
    status # "Uninitialized" =>
        /\ size = config
        /\ size[1] > 0 /\ size[2] > 0
        /\ Red(color)[2] > 0 /\ Green(color)[2] > 0

C18_Witness ==
    /\ status = "Ready"
    /\ Kind(ev) = "Resized" /\ Own(ev)
    /\ NewWidth(ev) = 0 /\ NewHeight(ev) = 0
    /\ size = <<1, 1>> /\ config = <<1, 1>>
    /\ Red(color) = <<1, 2>>

(* C19: with every cycle_blue step at most MaxElapsed blue units long      *)
(* (elapsed never exceeds MaxElapsed): if blue >= 1 the direction is       *)
(* decreasing, or no step has been made yet; if blue <= 0 the direction is *)
(* increasing once a step has been made; and blue stays within             *)
(* [-MaxElapsed, 1 + MaxElapsed], an overshoot of at most one step.        *)
C19_DirectionAtBounds ==
    status # "Uninitialized" =>
        /\ (Blue(color) >= One => (blue_direction = FALSE \/ ~advanced))
        /\ (Blue(color) <= 0 /\ advanced => blue_direction = TRUE)
        /\ Blue(color) >= 0 - MaxElapsed
        /\ Blue(color) <= One + MaxElapsed
        /\ (~advanced =>
                Blue(color) = 0 /\ blue_direction = DefaultBlueDirection)

C19_Witness ==
    /\ status = "Ready" /\ advanced
    /\ Blue(color) = 0 - MaxElapsed
    /\ blue_direction = TRUE
    /\ Called("cycle_blue")

====
